---- MODULE Spec2Model ----
(***************************************************************************)
(* Connection lifecycle and per-instance operation serialization of the   *)
(* KeyvDuckDB store (keyv-duckdb.ts) and its connection manager            *)
(* (connection-manager.ts).                                                *)
(*                                                                         *)
(* JavaScript runs each piece of code to completion between suspension     *)
(* points.  The model has one action per piece of code that runs between   *)
(* two suspensions on real I/O (fs.mkdir, the engine's create/connect/     *)
(* attach, a statement, the dispose timer).  An await on an already        *)
(* settled promise (this.getConnection() with the connection bound) only   *)
(* takes microtask turns, which run before any I/O completion and in the   *)
(* order the calls were made, so it is folded into the action.             *)
(***************************************************************************)
EXTENDS Integers, Sequences, FiniteSets, TLC

\* ---------------------------------------------------------------- bounds
MaxCalls == 3      \* public calls issued in one behaviour
MaxConns == 3      \* connections the engine hands out in one behaviour
MaxFaults == 1     \* engine failures injected in one behaviour

\* ------------------------------------------------------- the configuration
Inst == {1, 2}                 \* the KeyvDuckDB instances
Procs == {1, 2, 3}             \* concurrent callers (async call frames)
ConnIds == 1..MaxConns
NoConn == 0                    \* this.connection === undefined

\* keys are sequences of characters; <<>> is the empty string
EmptyKey == <<>>
KeyA == <<"a">>
KeyNB == <<"n", ":", "b">>
Keys == {EmptyKey, KeyA, KeyNB}
KeyLists == {<<>>, <<KeyA>>, <<KeyA, EmptyKey>>, <<KeyNB, KeyA, KeyNB>>}

\* values are what the caller passes: a string, or a number (given by its
\* decimal literal); the table stores strings
StringValue(s) == [type |-> "string", text |-> s]
NumberValue(s) == [type |-> "number", text |-> s]
Values == {StringValue("v1"), StringValue("1"), NumberValue("1")}
Absent == "undefined"

\* what a call returns besides a string: undefined, a boolean, an array
NoVal == [type |-> "undefined", text |-> Absent]
Boolean(b) == [type |-> "boolean", flag |-> b]
Array(q) == [type |-> "array", items |-> q]
NoNamespace == <<>>
NoKeySize == 0

\* The constructor's options, per instance, in the two deployments explored:
\*  - SharedFile: two plain instances on the same file, the second with a
\*    keySize and a namespace
\*  - TwoFiles: a plain instance and an encrypted one, on different files
Options(path, key, size, ns) ==
  [path |-> path, encryptionKey |-> key, keySize |-> size, namespace |-> ns]
SharedFile ==
  [i \in Inst |-> IF i = 1 THEN Options("P", "", NoKeySize, NoNamespace)
                           ELSE Options("P", "", 1, <<"n">>)]
TwoFiles ==
  [i \in Inst |-> IF i = 1 THEN Options("P", "", NoKeySize, NoNamespace)
                           ELSE Options("Q", "K", NoKeySize, NoNamespace)]
\*  - WildcardNamespace: two instances on the same file, the first with a
\*    namespace that holds a character LIKE treats as a wildcard, the second
\*    with a keySize one less than the longest key
WildcardNamespace ==
  [i \in Inst |-> IF i = 1 THEN Options("P", "", NoKeySize, <<"_">>)
                           ELSE Options("P", "", 2, NoNamespace)]
Files == {"P", "Q"}

VARIABLES
  scope,              \* which inputs the callers draw their arguments from
  opts,               \* per instance: the constructor's options (never change)
  connections,        \* connection-manager: the Set<ConnectionInfo> (ids)
  connOwner,          \* per connection id: the instance it was opened for (0: not created)
  connState,          \* per connection id: "none" | "open" | "closed"
  disposed,           \* per instance: this.disposed
  pendingOperations,  \* per instance: this.pendingOperations
  connection,         \* per instance: this.connection (NoConn = undefined)
  schemaInitialized,  \* per instance: this.schemaInitialized
  operationQueue,     \* per instance: the statements passed to queueOperation that
                      \* have not settled, in the order they were passed
  tableExists,        \* per file: the table has been created
  table,              \* per file: key -> stored payload or Absent
  pc,                 \* per caller: where its current call is suspended
  call,               \* per caller: the call it is making
  yielded,            \* per caller: the rows a suspended iterator has materialised
  rel,                \* per caller: the releaseConnection it is suspended in
  closePromises,      \* per connection id: the cleanup closeAllConnections started
                      \* for it, and the call that awaits it (0: none any more)
  last,               \* the call that settled in the step just taken, with its outcome
  disposal,           \* per instance: "none" | "invoked" | "resolved" (of dispose())
  calls,              \* number of public calls issued
  faults              \* number of engine failures injected

vars == <<scope, opts, connections, connOwner, connState, disposed, pendingOperations,
          connection, schemaInitialized, operationQueue, tableExists, table,
          pc, call, yielded, rel, closePromises, last, disposal, calls, faults>>

StoredKeys == Keys \ {EmptyKey}
NoCall == [op |-> "none", inst |-> 0, keys |-> <<>>, val |-> NoVal, seq |-> 0,
           late |-> FALSE, post |-> FALSE]
NoRes == [kind |-> "none", val |-> NoVal, ran |-> FALSE, hit |-> FALSE]
NoRel == [conn |-> NoConn, step |-> "none"]
NoCleanup == [step |-> "none", by |-> 0]
NoRows == <<>>

InitStore ==
  /\ connections = {}
  /\ connOwner = [c \in ConnIds |-> 0]
  /\ connState = [c \in ConnIds |-> "none"]
  /\ disposed = [i \in Inst |-> FALSE]
  /\ pendingOperations = [i \in Inst |-> 0]
  /\ connection = [i \in Inst |-> NoConn]
  /\ schemaInitialized = [i \in Inst |-> FALSE]
  /\ operationQueue = [i \in Inst |-> <<>>]
  /\ tableExists = [f \in Files |-> FALSE]
  /\ table = [f \in Files |-> [k \in StoredKeys |-> Absent]]
  /\ pc = [p \in Procs |-> "idle"]
  /\ call = [p \in Procs |-> NoCall]
  /\ yielded = [p \in Procs |-> NoRows]
  /\ rel = [p \in Procs |-> NoRel]
  /\ closePromises = [c \in ConnIds |-> NoCleanup]
  /\ last = [call |-> NoCall, res |-> NoRes]
  /\ disposal = [i \in Inst |-> "none"]
  /\ calls = 0
  /\ faults = 0

\* callers that exercise the lifecycle: overlapping calls on a plain and an
\* encrypted instance, with one valid key and one payload
Init == InitStore /\ scope = "lifecycle" /\ opts = TwoFiles

\* the arguments the callers pass
ArgKeys ==
  IF scope = "data" THEN Keys ELSE IF scope = "reject" THEN {EmptyKey, KeyA} ELSE {KeyA}
ArgKeyLists == IF scope = "data" THEN KeyLists ELSE {<<>>, <<KeyA>>}
ArgValues == IF scope = "data" THEN Values ELSE {StringValue("v1")}
\* iterator(), iterator('n'), iterator('')
ArgNamespaces == IF scope = "data" THEN {<<>>, <<<<"n">>>>, <<<<>>>>} ELSE {<<>>}

\* constructor: this.dbFile, this.encryptionKey, this.keySize, this.namespace
dbFile(i) == opts[i].path
encryptionKey(i) == opts[i].encryptionKey
keySize(i) == opts[i].keySize
namespace(i) == opts[i].namespace

\* ------------------------------------------------------ connection manager
\* isEncryptedConnection: the record's encrypted flag; false when not found
isEncryptedConnection(c) ==
  c \in connections /\ encryptionKey(connOwner[c]) # ""

\* the encrypted flag of a record the caller still holds (info.encrypted)
Encrypted(c) == encryptionKey(connOwner[c]) # ""

\* getConnectionCount
getConnectionCount == Cardinality(connections)

\* a connection that works on a database of its own, not on the instance's file
PrivateFile(c) == IF c = 1 THEN "P" ELSE "Q"

\* the file a connection works on
FileOf(c) == dbFile(connOwner[c])

\* ------------------------------------------------------------ pure helpers
\* a check that rejects a key as long as keySize
validateKeyBelow(i, k) ==
  /\ Len(k) # 0
  /\ ~(keySize(i) # NoKeySize /\ Len(k) >= keySize(i))

\* validateKey: throws for the empty key and for a key longer than keySize
validateKey(i, k) ==
  /\ Len(k) # 0
  /\ ~(keySize(i) # NoKeySize /\ Len(k) > keySize(i))

\* a batch check that looks at the first key only
FirstValid(i, ks) == validateKey(i, ks[1])

AllValid(i, ks) == \A n \in 1..Len(ks) : validateKey(i, ks[n])

KeySet(ks) == {ks[n] : n \in 1..Len(ks)}

\* the methods that call validateKey on their keys before getConnection
Validating == {"get", "set", "setMany", "delete", "deleteMany", "has", "hasMany"}

\* the key starts with the namespace followed by ':'
StartsWith(k, ns) ==
  /\ Len(k) >= Len(ns) + 1
  /\ SubSeq(k, 1, Len(ns)) = ns
  /\ k[Len(ns) + 1] = ":"

\* s LIKE pat: '%' matches any run of characters, '_' any one character
RECURSIVE Like(_, _)
Like(s, pat) ==
  IF pat = <<>> THEN s = <<>>
  ELSE IF Head(pat) = "%"
    THEN Like(s, Tail(pat)) \/ (s # <<>> /\ Like(Tail(s), pat))
  ELSE s # <<>> /\ (Head(pat) = "_" \/ Head(pat) = Head(s)) /\ Like(Tail(s), Tail(pat))

\* the pattern `${ns}:%`
Pattern(ns) == ns \o <<":", "%">>

\* ORDER BY k: keys compare character by character, by character code
CharCode == [ch \in {":", "_", "a", "b", "n"} |->
               CASE ch = ":" -> 58 [] ch = "_" -> 95 [] ch = "a" -> 97
                 [] ch = "b" -> 98 [] ch = "n" -> 110]

RECURSIVE KeyLess(_, _)
KeyLess(a, b) ==
  IF b = <<>> THEN FALSE
  ELSE IF a = <<>> THEN TRUE
  ELSE IF Head(a) = Head(b) THEN KeyLess(Tail(a), Tail(b))
  ELSE CharCode[Head(a)] < CharCode[Head(b)]

RECURSIVE OrderBy(_)
OrderBy(S) ==
  IF S = {} THEN <<>>
  ELSE LET m == CHOOSE k \in S : \A j \in S \ {k} : KeyLess(k, j)
       IN <<m>> \o OrderBy(S \ {m})

\* JSON.stringify of a value
JSONstringify(v) ==
  IF v.type = "string" THEN "\"" \o v.text \o "\"" ELSE v.text

\* an encoding that turns every value, strings too, into JSON
storedAsJSON(v) == JSONstringify(v)

\* the text set and setMany store: a string as it is, anything else as JSON
stored(v) == IF v.type = "string" THEN v.text ELSE JSONstringify(v)

\* ---------------------------------------------------------- the serial queue
\* A statement passed to queueOperation: the caller that awaits it, which
\* statement of the call it is ("create" | "first" | "second"), the connection
\* it runs on, and whether it was chained on the previous statement's
\* settlement.  The schema statement calls this.connection?.run when it
\* starts, so its connection (NoConn until then) is read at that moment.
Stmt(p, stage, c) == [proc |-> p, stage |-> stage, conn |-> c, chained |-> TRUE]

\* the statements that have started: the first of the chain, and any that does
\* not wait for its predecessor
Running(q) == {n \in 1..Len(q) : n = 1 \/ ~q[n].chained}

\* a statement that starts reads this.connection
Started(q, c) ==
  [n \in 1..Len(q) |->
     IF n \in Running(q) /\ q[n].conn = NoConn THEN [q[n] EXCEPT !.conn = c] ELSE q[n]]

Remove(q, n) == SubSeq(q, 1, n - 1) \o SubSeq(q, n + 1, Len(q))

\* the queue with a statement that skips the chain (what queueOperation must not do)
queueUnchained(q, e, c) == Started(Append(q, [e EXCEPT !.chained = FALSE]), c)

\* a queue that runs the newest statement first
queueInFront(q, e, c) == Started(<<e>> \o q, c)

\* queueOperation: this.operationQueue.then(operation, operation), and the
\* chain now ends with this statement
queueOperation(q, e, c) == Started(Append(q, e), c)

\* ------------------------------------------------- what a statement computes
Lookup(t, k) == IF k \in StoredKeys THEN t[k] ELSE Absent

\* get: `return rows[0]?.v`
Returned(s) == IF s = Absent THEN NoVal ELSE StringValue(s)

\* the keys of the rows SELECT ... WHERE k IN (keys) returns
SelectIn(t, ks) == {k \in KeySet(ks) \cap StoredKeys : t[k] # Absent}

\* a result with one element per row, in the order of the rows
RowValues(ks, t) ==
  [n \in 1..Cardinality(SelectIn(t, ks)) |-> t[OrderBy(SelectIn(t, ks))[n]]]

\* getMany: keys.map((key) => resultMap.get(key))
AlignedValues(ks, t) ==
  [n \in 1..Len(ks) |-> IF ks[n] \in SelectIn(t, ks) THEN t[ks[n]] ELSE Absent]

\* hasMany: keys.map((key) => existsSet.has(key))
AlignedFlags(ks, t) == [n \in 1..Len(ks) |-> ks[n] \in SelectIn(t, ks)]

\* what the call returns from the rows of its first statement
FirstResult(c, t) ==
  CASE c.op = "get" -> Returned(Lookup(t, c.keys[1]))
    [] c.op = "getMany" -> Array(AlignedValues(c.keys, t))
    [] c.op = "set" -> Boolean(TRUE)
    [] c.op = "setMany" -> NoVal
    [] c.op = "delete" -> Boolean(Lookup(t, c.keys[1]) # Absent)
    [] c.op = "deleteMany" -> Boolean(TRUE)
    [] c.op = "has" -> Boolean(Lookup(t, c.keys[1]) # Absent)
    [] c.op = "hasMany" -> Array(AlignedFlags(c.keys, t))
    [] c.op = "clear" -> NoVal
    [] c.op = "iterator" -> NoVal

\* the rows an iterator's query returns, as [k, v] pairs; c.keys holds the
\* namespace argument, if one is given (`namespace ?? this.namespace`), and an
\* empty ns selects every row (`if (ns)`)
IterRows(i, c, t) ==
  LET ns == IF c.keys # <<>> THEN c.keys[1] ELSE namespace(i)
      ks == OrderBy({k \in StoredKeys :
                      t[k] # Absent /\ (ns = NoNamespace \/ Like(k, Pattern(ns)))})
  IN [n \in 1..Len(ks) |-> <<ks[n], t[ks[n]]>>]

\* the table after the first statement of call c
FirstEffect(i, c, t) ==
  CASE c.op \in {"set", "setMany"} ->
         [k \in StoredKeys |-> IF k \in KeySet(c.keys) THEN stored(c.val) ELSE t[k]]
    [] c.op = "deleteMany" ->
         [k \in StoredKeys |-> IF k \in KeySet(c.keys) THEN Absent ELSE t[k]]
    [] c.op = "clear" ->
         [k \in StoredKeys |->
            IF namespace(i) = NoNamespace \/ Like(k, Pattern(namespace(i)))
            THEN Absent ELSE t[k]]
    [] OTHER -> t

\* DELETE FROM t WHERE k = $key, the second statement of delete
SecondEffect(c, t) == [t EXCEPT ![c.keys[1]] = Absent]

\* ------------------------------------------------------------ the store
Call(op, i, ks, v) ==
  [op |-> op, inst |-> i, keys |-> ks, val |-> v, seq |-> calls + 1,
   late |-> disposal[i] # "none", post |-> disposal[i] = "resolved"]
Result(kind, v, ran, hit) == [kind |-> kind, val |-> v, ran |-> ran, hit |-> hit]

\* callers are anonymous: a call takes the first free frame
FreeFrame(p) == pc[p] = "idle" /\ \A q \in Procs : q < p => pc[q] # "idle"

\* The calls the callers overlap.  In the lifecycle and registry scopes set,
\* delete, iterator().next(), dispose and closeAllConnections are issued while
\* other calls of these are in flight; each of the remaining methods is called
\* with no other call in flight.
Overlapping == {"set", "delete", "iterator", "dispose", "disconnect", "asyncDispose",
                "closeAllConnections"}
MayCall(op) ==
  IF scope # "data" /\ op \in Overlapping
  THEN \A q \in Procs : pc[q] # "idle" => call[q].op \in Overlapping
  ELSE \A q \in Procs : pc[q] = "idle"

\* the call c of frame p returns or throws: its promise settles
Finish(p, c, r) ==
  /\ pc' = [pc EXCEPT ![p] = "idle"]
  /\ call' = [call EXCEPT ![p] = NoCall]
  /\ yielded' = [yielded EXCEPT ![p] = NoRows]
  /\ last' = [call |-> c, res |-> r]

\* no call settles in this step
NoLast == [call |-> NoCall, res |-> NoRes]
Quiet == last' = NoLast

\* an endOperation that leaves the count as it is
endOperationKeeps(i) == UNCHANGED pendingOperations

\* endOperation
endOperation(i) ==
  pendingOperations' = [pendingOperations EXCEPT ![i] = @ - 1]

\* a guard that admits every call
beginOperationNeverThrows(i) == FALSE

\* the guard of beginOperation: it throws when this.disposed
beginOperationThrows(i) == disposed[i]

Registry == <<connections, connOwner, connState>>
Data == <<tableExists, table>>
Fixed == <<scope, opts>>

\* a validateKey that throws with no finally around it: the count stays raised
throwsOutsideTry(i) == pendingOperations' = [pendingOperations EXCEPT ![i] = @ + 1]

\* validateKey throws inside the method's try, in the turn of beginOperation:
\* the finally runs endOperation and the count is what it was before the call
throwsInTry(i) == UNCHANGED pendingOperations

\* The synchronous start of a public method with a non-empty input, up to its
\* first suspension on I/O: beginOperation, validateKey, then getConnection,
\* which returns the bound connection (and the method queues its first
\* statement through run/all) or goes on to fs.mkdir and to connect.
Invoke(p, c) ==
  LET i == c.inst IN
  /\ FreeFrame(p)
  /\ MayCall(c.op)
  /\ calls < MaxCalls
  /\ calls' = calls + 1
  /\ UNCHANGED <<Fixed, Registry, disposed, connection, schemaInitialized, Data,
                 rel, closePromises, disposal, faults>>
  /\ IF beginOperationThrows(i)
       THEN /\ Finish(p, c, Result("disposed", NoVal, FALSE, FALSE))
            /\ UNCHANGED <<pendingOperations, operationQueue>>
     ELSE IF c.op \in Validating /\ ~AllValid(i, c.keys)
       THEN /\ Finish(p, c, Result("validation", NoVal, FALSE, FALSE))
            /\ throwsInTry(i)
            /\ UNCHANGED operationQueue
     ELSE /\ pendingOperations' = [pendingOperations EXCEPT ![i] = @ + 1]
          /\ call' = [call EXCEPT ![p] = c]
          /\ UNCHANGED <<yielded>> /\ Quiet
          /\ IF connection[i] # NoConn
               THEN /\ operationQueue' = [operationQueue EXCEPT ![i] =
                         queueOperation(@, Stmt(p, "first", connection[i]), connection[i])]
                    /\ pc' = [pc EXCEPT ![p] = "stmt"]
               ELSE /\ pc' = [pc EXCEPT ![p] = "connect"]
                    /\ UNCHANGED operationQueue

\* a batch method that treats an empty list like any other
AdmitEmpty(p, c, v) == Invoke(p, c)

\* a batch method called with an empty list returns before beginOperation
ReturnEmpty(p, c, v) ==
  /\ FreeFrame(p)
  /\ MayCall(c.op)
  /\ calls < MaxCalls
  /\ calls' = calls + 1
  /\ Finish(p, c, Result("ok", v, FALSE, FALSE))
  /\ UNCHANGED <<Fixed, Registry, disposed, pendingOperations, connection,
                 schemaInitialized, operationQueue, Data, rel, closePromises, disposal, faults>>

Get(p) == \E i \in Inst, k \in ArgKeys : Invoke(p, Call("get", i, <<k>>, NoVal))

GetMany(p) ==
  \E i \in Inst, ks \in ArgKeyLists :
    IF Len(ks) = 0 THEN ReturnEmpty(p, Call("getMany", i, ks, NoVal), Array(<<>>))
    ELSE Invoke(p, Call("getMany", i, ks, NoVal))

Set(p) == \E i \in Inst, k \in ArgKeys, v \in ArgValues : Invoke(p, Call("set", i, <<k>>, v))

SetMany(p) ==
  \E i \in Inst, ks \in ArgKeyLists, v \in ArgValues :
    IF Len(ks) = 0 THEN ReturnEmpty(p, Call("setMany", i, ks, v), NoVal)
    ELSE Invoke(p, Call("setMany", i, ks, v))

Delete(p) == \E i \in Inst, k \in ArgKeys : Invoke(p, Call("delete", i, <<k>>, NoVal))

DeleteMany(p) ==
  \E i \in Inst, ks \in ArgKeyLists :
    IF Len(ks) = 0 THEN ReturnEmpty(p, Call("deleteMany", i, ks, NoVal), Boolean(TRUE))
    ELSE Invoke(p, Call("deleteMany", i, ks, NoVal))

Has(p) == \E i \in Inst, k \in ArgKeys : Invoke(p, Call("has", i, <<k>>, NoVal))

HasMany(p) ==
  \E i \in Inst, ks \in ArgKeyLists :
    IF Len(ks) = 0 THEN ReturnEmpty(p, Call("hasMany", i, ks, NoVal), Array(<<>>))
    ELSE Invoke(p, Call("hasMany", i, ks, NoVal))

Clear(p) == \E i \in Inst : Invoke(p, Call("clear", i, <<>>, NoVal))

\* iterator(namespace).next(): the generator body starts on the first next()
Iterator(p) ==
  \E i \in Inst, ns \in ArgNamespaces : Invoke(p, Call("iterator", i, ns, NoVal))

\* ------------------------------------------- getConnection, past the awaits
\* a manager that hands out a connection it already holds, when it holds one
PooledConn ==
  CHOOSE c \in ConnIds :
    IF connections # {} THEN c \in connections
    ELSE connState[c] = "none" /\ \A d \in ConnIds : connState[d] = "none" => c <= d

\* connection-manager getConnection: a brand-new record on every call
FreshConn ==
  CHOOSE c \in ConnIds :
    connState[c] = "none" /\ \A d \in ConnIds : connState[d] = "none" => c <= d

\* fs.mkdir and the connection manager's getConnection have completed: the
\* connections.add, then `this.connection = ...` and, unless schemaInitialized,
\* the CREATE TABLE IF NOT EXISTS queued on the chain.  With the schema already
\* initialised getConnection returns and run/all queue the call's statement.
ConnectDone(p) ==
  LET i == call[p].inst
      c == FreshConn
  IN
  /\ pc[p] = "connect"
  /\ \E d \in ConnIds : connState[d] = "none"
  /\ connections' = connections \cup {c}
  /\ connOwner' = [connOwner EXCEPT ![c] = i]
  /\ connState' = [connState EXCEPT ![c] = "open"]
  /\ connection' = [connection EXCEPT ![i] = c]
  /\ operationQueue' = [operationQueue EXCEPT ![i] =
       IF ~schemaInitialized[i]
       THEN queueOperation(@, Stmt(p, "create", NoConn), c)
       ELSE queueOperation(@, Stmt(p, "first", c), c)]
  /\ pc' = [pc EXCEPT ![p] = "stmt"]
  /\ UNCHANGED <<Fixed, disposed, pendingOperations, schemaInitialized, Data, call, yielded, rel, closePromises, disposal, calls, faults>> /\ Quiet

\* fs.mkdir or the engine's create/connect/attach rejects: the method's
\* finally runs endOperation and the call rejects
ConnectFail(p) ==
  LET i == call[p].inst IN
  /\ pc[p] = "connect"
  /\ faults < MaxFaults
  /\ faults' = faults + 1
  /\ endOperation(i)
  /\ Finish(p, call[p], Result("error", NoVal, FALSE, FALSE))
  /\ UNCHANGED <<Fixed, Registry, disposed, connection, schemaInitialized,
                 operationQueue, Data, rel, closePromises, disposal, calls>>

\* ------------------------------------------------- a statement settles
\* the engine cannot run a statement on a closed connection, nor a data
\* statement on a file without the table
MustFail(e) ==
  \/ connState[e.conn] # "open"
  \/ e.stage # "create" /\ ~tableExists[FileOf(e.conn)]

\* a chain that ends with the statement that settles: what was queued behind
\* it is never started
chainBroken(i, n) == <<>>

\* the chain after statement n has settled: the next one starts
Settled(i, n) == Started(Remove(operationQueue[i], n), connection[i])

\* A started statement of instance i succeeds; its caller resumes and runs to
\* its next suspension or to its end.
SettleOk(i) ==
  \E n \in Running(operationQueue[i]) :
    LET e == operationQueue[i][n]
        p == e.proc
        c == call[p]
        f == FileOf(e.conn)
        t == table[f]
    IN
    /\ ~MustFail(e)
    /\ UNCHANGED <<Fixed, Registry, disposed, connection, rel, closePromises, disposal, calls, faults>>
    /\ CASE e.stage = "create" ->
              \* schemaInitialized = true; getConnection returns; run/all queue
              /\ tableExists' = [tableExists EXCEPT ![f] = TRUE]
              /\ schemaInitialized' = [schemaInitialized EXCEPT ![i] = TRUE]
              /\ operationQueue' = [operationQueue EXCEPT ![i] =
                   queueOperation(Settled(i, n), Stmt(p, "first", connection[i]),
                                  connection[i])]
              /\ UNCHANGED <<pendingOperations, table, pc, call, yielded>> /\ Quiet
         [] e.stage = "first" /\ c.op = "delete" /\ FirstResult(c, t).flag ->
              \* existed: run the DELETE
              /\ operationQueue' = [operationQueue EXCEPT ![i] =
                   queueOperation(Settled(i, n), Stmt(p, "second", connection[i]),
                                  connection[i])]
              /\ UNCHANGED <<pendingOperations, schemaInitialized, Data, pc, call, yielded>> /\ Quiet
         [] e.stage = "first" /\ c.op = "delete" /\ ~FirstResult(c, t).flag ->
              /\ operationQueue' = [operationQueue EXCEPT ![i] = Settled(i, n)]
              /\ endOperation(i)
              /\ Finish(p, c, Result("ok", Boolean(FALSE), TRUE, FALSE))
              /\ UNCHANGED <<schemaInitialized, Data>>
         [] e.stage = "first" /\ c.op = "iterator" /\ IterRows(i, c, t) # <<>> ->
              \* the generator yields its first row and stays suspended
              /\ operationQueue' = [operationQueue EXCEPT ![i] = Settled(i, n)]
              /\ pc' = [pc EXCEPT ![p] = "yield"]
              /\ yielded' = [yielded EXCEPT ![p] = IterRows(i, c, t)]
              /\ UNCHANGED <<pendingOperations, schemaInitialized, Data, call>> /\ Quiet
         [] e.stage = "first" /\ c.op = "iterator" /\ IterRows(i, c, t) = <<>> ->
              /\ operationQueue' = [operationQueue EXCEPT ![i] = Settled(i, n)]
              /\ endOperation(i)
              /\ Finish(p, c, Result("ok", Array(<<>>), TRUE, FALSE))
              /\ UNCHANGED <<schemaInitialized, Data>>
         [] e.stage = "first" /\ c.op \notin {"delete", "iterator"} ->
              /\ operationQueue' = [operationQueue EXCEPT ![i] = Settled(i, n)]
              /\ table' = [table EXCEPT ![f] = FirstEffect(i, c, t)]
              /\ endOperation(i)
              /\ Finish(p, c, Result("ok", FirstResult(c, t), TRUE, FALSE))
              /\ UNCHANGED <<schemaInitialized, tableExists>>
         [] e.stage = "second" ->
              /\ operationQueue' = [operationQueue EXCEPT ![i] = Settled(i, n)]
              /\ table' = [table EXCEPT ![f] = SecondEffect(c, t)]
              /\ endOperation(i)
              /\ Finish(p, c, Result("ok", Boolean(TRUE), TRUE, t[c.keys[1]] # Absent))
              /\ UNCHANGED <<schemaInitialized, tableExists>>

\* A started statement of instance i fails: queueOperation's result rejects,
\* the chain goes on, the caller's finally runs endOperation.
SettleFail(i) ==
  \E n \in Running(operationQueue[i]) :
    LET e == operationQueue[i][n]
        p == e.proc
    IN
    /\ MustFail(e) \/ faults < MaxFaults
    /\ faults' = IF MustFail(e) THEN faults ELSE faults + 1
    /\ operationQueue' = [operationQueue EXCEPT ![i] = Settled(i, n)]
    /\ endOperation(i)
    /\ Finish(p, call[p], Result("error", NoVal, e.stage # "create", FALSE))
    /\ UNCHANGED <<Fixed, Registry, disposed, connection, schemaInitialized, Data,
                   rel, closePromises, disposal, calls>>

\* the consumer takes the remaining rows (or calls return()): the generator's
\* finally runs endOperation
IterEnd(p) ==
  /\ pc[p] = "yield"
  /\ endOperation(call[p].inst)
  /\ Finish(p, call[p], Result("ok", Array(yielded[p]), TRUE, FALSE))
  /\ UNCHANGED <<Fixed, Registry, disposed, connection, schemaInitialized,
                 operationQueue, Data, rel, closePromises, disposal, calls, faults>>

\* ------------------------------------------------------------- dispose
\* a dispose that tears down at once, whatever is pending
disposeNeverWaits(i) == FALSE

\* the polling loop of dispose: it goes round while operations are pending
disposeWaits(i) == pendingOperations[i] > 0

\* a dispose() call resolves; hit: it passed a connection to releaseConnection,
\* ran: releaseConnection found the connection and cleaned it up
Resolve(p, c, hit, ran) ==
  /\ Finish(p, c, Result("ok", NoVal, ran, hit))
  /\ disposal' = [disposal EXCEPT ![c.inst] = "resolved"]

\* a lookup that finds a record for whatever it is given
RegisteredAlways(c) == TRUE

\* the for loop of releaseConnection finds the record of the connection
Registered(c) == c \in connections

\* a release that leaves the record in the registry
keepInfo(c) == connections

\* connections.delete(info)
deleteInfo(c) == connections \ {c}

\* dispose past its polling loop: `this.disposed = true`, then
\* releaseConnection(this.connection) up to its first await.  A connection
\* found in the registry is deleted from it and its checkpoint is started;
\* one that is not found makes releaseConnection return at once, and dispose
\* clears the binding.
DisposeProceed(p, dc) ==
  LET i == dc.inst
      c == connection[i]
  IN
  /\ disposed' = [disposed EXCEPT ![i] = TRUE]
  /\ IF c # NoConn /\ Registered(c)
       THEN /\ connections' = deleteInfo(c)
            /\ rel' = [rel EXCEPT ![p] = [conn |-> c, step |-> "checkpoint"]]
            /\ pc' = [pc EXCEPT ![p] = "release"]
            /\ call' = [call EXCEPT ![p] = dc]
            /\ disposal' = [disposal EXCEPT ![i] = IF @ = "none" THEN "invoked" ELSE @]
            /\ UNCHANGED <<connection, yielded>> /\ Quiet
       ELSE /\ connection' = [connection EXCEPT ![i] = NoConn]
            /\ Resolve(p, dc, c # NoConn, FALSE)
            /\ UNCHANGED <<connections, rel>>
  /\ UNCHANGED <<Fixed, connOwner, connState, pendingOperations, schemaInitialized,
                 operationQueue, Data, closePromises, faults>>

\* a repeated dispose that clears the flag again
DisposeReopens(p, dc) ==
  /\ Resolve(p, dc, FALSE, FALSE)
  /\ disposed' = [disposed EXCEPT ![dc.inst] = FALSE]
  /\ UNCHANGED <<Fixed, Registry, pendingOperations, connection,
                 schemaInitialized, operationQueue, Data, rel, closePromises, faults>>

\* a repeated dispose that empties the registry
DisposeClearsRegistry(p, dc) ==
  /\ Resolve(p, dc, FALSE, FALSE)
  /\ connections' = {}
  /\ UNCHANGED <<Fixed, connOwner, connState, disposed, pendingOperations, connection,
                 schemaInitialized, operationQueue, Data, rel, closePromises, faults>>

\* dispose() on an instance whose disposed flag is set: `if (this.disposed) return`
DisposeReturn(p, dc) ==
  /\ Resolve(p, dc, FALSE, FALSE)
  /\ UNCHANGED <<Fixed, Registry, disposed, pendingOperations, connection,
                 schemaInitialized, operationQueue, Data, rel, closePromises, faults>>

\* dispose(), called directly or through disconnect() or [Symbol.asyncDispose](),
\* which await it: returns at once when already disposed; waits on a 1 ms timer
\* while operations are pending; otherwise proceeds
DisposeVia(p, op) ==
  \E i \in Inst :
    LET dc == Call(op, i, <<>>, NoVal) IN
    /\ FreeFrame(p)
    /\ MayCall(op)
    /\ calls < MaxCalls
    /\ calls' = calls + 1
    /\ IF disposed[i]
         THEN DisposeReturn(p, dc)
       ELSE IF disposeWaits(i)
         THEN /\ pc' = [pc EXCEPT ![p] = "poll"]
              /\ call' = [call EXCEPT ![p] = dc]
              /\ disposal' = [disposal EXCEPT ![i] = IF @ = "none" THEN "invoked" ELSE @]
              /\ UNCHANGED <<Fixed, Registry, disposed, pendingOperations, connection,
                             schemaInitialized, operationQueue, Data, yielded, rel,
                             closePromises, faults>>
              /\ Quiet
       ELSE DisposeProceed(p, dc)

Dispose(p) == DisposeVia(p, "dispose")

\* disconnect(): `await this.dispose()`
Disconnect(p) == DisposeVia(p, "disconnect")

\* [Symbol.asyncDispose](): `await this.dispose()`
AsyncDispose(p) == DisposeVia(p, "asyncDispose")

\* the timer of the polling loop fires and no operation is pending any more
\* (with operations pending the loop sets the timer again: no change)
DisposePoll(p) ==
  /\ pc[p] = "poll"
  /\ ~disposeWaits(call[p].inst)
  /\ DisposeProceed(p, call[p])
  /\ UNCHANGED calls

\* what connection.closeSync() and info.instance.closeSync() can do: both
\* return ("ok"), the first throws ("handle": nothing is closed), or the second
\* throws ("instance": the connection handle is closed, the instance is not)
CloseOutcomes == {"ok", "handle", "instance"}
CloseError == [type |-> "error", text |-> "close failed"]

\* the state of a connection after the two closeSync calls
Closed(c, close) ==
  CASE close = "ok" -> "closed"
    [] close = "handle" -> connState[c]
    [] close = "instance" -> "half"

\* the engine failures a cleanup step injects: a statement that fails on an
\* open connection, and a closeSync that throws
CleanupFaults(c, ok, close) ==
  (IF ok \/ connState[c] # "open" THEN 0 ELSE 1) + (IF close = "ok" THEN 0 ELSE 1)

\* releaseConnection past an await: the CHECKPOINT (or DETACH) statement has
\* settled.  An encrypted connection whose checkpoint succeeded goes on to
\* DETACH; otherwise (the catch swallows a statement's failure) the connection
\* and the instance are closed, releaseConnection returns and dispose clears
\* the binding.  A closeSync that throws is outside the try: releaseConnection
\* rejects, and so does dispose, before `this.connection = undefined`.
ReleaseSettle(p, ok, close) ==
  LET c == rel[p].conn
      i == call[p].inst
  IN
  /\ pc[p] = "release"
  /\ ok => connState[c] = "open"
  /\ faults + CleanupFaults(c, ok, close) <= MaxFaults
  /\ faults' = faults + CleanupFaults(c, ok, close)
  /\ IF ok /\ rel[p].step = "checkpoint" /\ Encrypted(c)
       THEN /\ close = "ok"
            /\ rel' = [rel EXCEPT ![p].step = "detach"]
            /\ UNCHANGED <<connState, connection, pc, call, yielded, disposal>> /\ Quiet
       ELSE /\ connState' = [connState EXCEPT ![c] = Closed(c, close)]
            /\ rel' = [rel EXCEPT ![p] = NoRel]
            /\ IF close = "ok"
                 THEN /\ connection' = [connection EXCEPT ![i] = NoConn]
                      /\ Resolve(p, call[p], TRUE, TRUE)
                 ELSE /\ Finish(p, call[p], Result("error", CloseError, TRUE, TRUE))
                      /\ UNCHANGED <<connection, disposal>>
  /\ UNCHANGED <<Fixed, connections, connOwner, disposed, pendingOperations,
                 schemaInitialized, operationQueue, Data, closePromises, calls>>

ReleaseOk(p) == ReleaseSettle(p, TRUE, "ok")
ReleaseFail(p) == ReleaseSettle(p, FALSE, "ok")
ReleaseCloseFail(p) ==
  \E ok \in BOOLEAN, close \in CloseOutcomes \ {"ok"} : ReleaseSettle(p, ok, close)

\* ------------------------------------------------- closeAllConnections
\* closeAllConnections up to its await: one cleanup is started for every
\* registered connection, each runs to its first await (the CHECKPOINT), then
\* connections.clear() and Promise.all.  With an empty registry Promise.all
\* resolves at once.
CloseAllConnections(p) ==
  LET cc == [op |-> "closeAllConnections", inst |-> 0, keys |-> <<>>, val |-> NoVal,
             seq |-> calls + 1, late |-> FALSE, post |-> FALSE]
  IN
  /\ FreeFrame(p)
  /\ MayCall("closeAllConnections")
  /\ calls < MaxCalls
  /\ calls' = calls + 1
  /\ connections' = {}
  /\ IF connections = {}
       THEN /\ Finish(p, cc, Result("ok", NoVal, FALSE, FALSE))
            /\ UNCHANGED closePromises
       ELSE /\ closePromises' = [c \in ConnIds |->
                 IF c \in connections THEN [step |-> "checkpoint", by |-> p]
                 ELSE closePromises[c]]
            /\ pc' = [pc EXCEPT ![p] = "closeAll"]
            /\ call' = [call EXCEPT ![p] = cc]
            /\ UNCHANGED yielded /\ Quiet
  /\ UNCHANGED <<Fixed, connOwner, connState, disposed, pendingOperations, connection,
                 schemaInitialized, operationQueue, Data, rel, disposal, faults>>

\* the cleanups, other than that of c, that the call awaiting c's still awaits
Awaited(c) ==
  {d \in ConnIds \ {c} : closePromises[d].step # "none"
                          /\ closePromises[d].by = closePromises[c].by}

\* A cleanup of closeAllConnections past an await: its CHECKPOINT (or DETACH)
\* has settled.  As in releaseConnection a statement's failure is swallowed
\* and a closeSync that throws is not: the cleanup's promise rejects, and
\* Promise.all rejects at once, with the other cleanups still running.
CleanupSettle(c, ok, close) ==
  LET p == closePromises[c].by IN
  /\ closePromises[c].step # "none"
  /\ ok => connState[c] = "open"
  /\ faults + CleanupFaults(c, ok, close) <= MaxFaults
  /\ faults' = faults + CleanupFaults(c, ok, close)
  /\ IF ok /\ closePromises[c].step = "checkpoint" /\ Encrypted(c)
       THEN /\ close = "ok"
            /\ closePromises' = [closePromises EXCEPT ![c].step = "detach"]
            /\ UNCHANGED <<connState, pc, call, yielded>> /\ Quiet
       ELSE /\ connState' = [connState EXCEPT ![c] = Closed(c, close)]
            /\ IF p # 0 /\ close # "ok"
                 THEN /\ closePromises' = [d \in ConnIds |->
                           IF d = c THEN NoCleanup
                           ELSE IF closePromises[d].by = p
                             THEN [closePromises[d] EXCEPT !.by = 0]
                           ELSE closePromises[d]]
                      /\ Finish(p, call[p], Result("error", CloseError, TRUE, TRUE))
               ELSE IF p # 0 /\ Awaited(c) = {}
                 THEN /\ closePromises' = [closePromises EXCEPT ![c] = NoCleanup]
                      /\ Finish(p, call[p], Result("ok", NoVal, TRUE, TRUE))
               ELSE /\ closePromises' = [closePromises EXCEPT ![c] = NoCleanup]
                    /\ UNCHANGED <<pc, call, yielded>> /\ Quiet
  /\ UNCHANGED <<Fixed, connections, connOwner, disposed, pendingOperations, connection,
                 schemaInitialized, operationQueue, Data, rel, disposal, calls>>

CleanupOk(c) == CleanupSettle(c, TRUE, "ok")
CleanupFail(c) == CleanupSettle(c, FALSE, "ok")
CleanupCloseFail(c) ==
  \E ok \in BOOLEAN, close \in CloseOutcomes \ {"ok"} : CleanupSettle(c, ok, close)

\* ------------------------------------------------------- the specification
Next ==
  \/ \E p \in Procs : Get(p)
  \/ \E p \in Procs : GetMany(p)
  \/ \E p \in Procs : Set(p)
  \/ \E p \in Procs : SetMany(p)
  \/ \E p \in Procs : Delete(p)
  \/ \E p \in Procs : DeleteMany(p)
  \/ \E p \in Procs : Has(p)
  \/ \E p \in Procs : HasMany(p)
  \/ \E p \in Procs : Clear(p)
  \/ \E p \in Procs : Iterator(p)
  \/ \E p \in Procs : Dispose(p)
  \/ \E p \in Procs : ConnectDone(p)
  \/ \E p \in Procs : ConnectFail(p)
  \/ \E i \in Inst : SettleOk(i)
  \/ \E i \in Inst : SettleFail(i)
  \/ \E p \in Procs : IterEnd(p)
  \/ \E p \in Procs : DisposePoll(p)
  \/ \E p \in Procs : ReleaseOk(p)
  \/ \E p \in Procs : ReleaseFail(p)
  \/ \E p \in Procs : ReleaseCloseFail(p)

Spec == Init /\ [][Next]_vars

\* The store used together with the registry's own entry points: callers that
\* set, dispose and call closeAllConnections, overlapping, on two instances
\* that share a file or that work on a plain and an encrypted file.
InitRegistry == InitStore /\ scope = "registry" /\ opts \in {SharedFile, TwoFiles}

NextRegistry ==
  \/ \E p \in Procs : Set(p)
  \/ \E p \in Procs : Dispose(p)
  \/ \E p \in Procs : CloseAllConnections(p)
  \/ \E p \in Procs : ConnectDone(p)
  \/ \E p \in Procs : ConnectFail(p)
  \/ \E i \in Inst : SettleOk(i)
  \/ \E i \in Inst : SettleFail(i)
  \/ \E p \in Procs : DisposePoll(p)
  \/ \E p \in Procs : ReleaseOk(p)
  \/ \E p \in Procs : ReleaseFail(p)
  \/ \E p \in Procs : ReleaseCloseFail(p)
  \/ \E c \in ConnIds : CleanupOk(c)
  \/ \E c \in ConnIds : CleanupFail(c)
  \/ \E c \in ConnIds : CleanupCloseFail(c)

SpecRegistry == InitRegistry /\ [][NextRegistry]_vars

\* The store's data operations, called one after the other with every kind of
\* key (empty, plain, namespaced, longer than keySize), on two instances that
\* share a file, one of them with a keySize and a namespace or with a namespace
\* that holds a wildcard character.
InitData == InitStore /\ scope = "data" /\ opts \in {SharedFile, WildcardNamespace}

NextData ==
  \/ \E p \in Procs : Get(p)
  \/ \E p \in Procs : GetMany(p)
  \/ \E p \in Procs : Set(p)
  \/ \E p \in Procs : SetMany(p)
  \/ \E p \in Procs : Delete(p)
  \/ \E p \in Procs : DeleteMany(p)
  \/ \E p \in Procs : Has(p)
  \/ \E p \in Procs : HasMany(p)
  \/ \E p \in Procs : Clear(p)
  \/ \E p \in Procs : Iterator(p)
  \/ \E p \in Procs : ConnectDone(p)
  \/ \E p \in Procs : ConnectFail(p)
  \/ \E i \in Inst : SettleOk(i)
  \/ \E i \in Inst : SettleFail(i)
  \/ \E p \in Procs : IterEnd(p)

SpecData == InitData /\ [][NextData]_vars

\* Two instances on one file that are written, disposed of (through dispose,
\* disconnect or the async-dispose hook) and read, the one after the other or
\* overlapping.
InitReopen == InitStore /\ scope = "reopen" /\ opts = SharedFile

NextReopen ==
  \/ \E p \in Procs : Set(p)
  \/ \E p \in Procs : Get(p)
  \/ \E p \in Procs : Dispose(p)
  \/ \E p \in Procs : Disconnect(p)
  \/ \E p \in Procs : AsyncDispose(p)
  \/ \E p \in Procs : ConnectDone(p)
  \/ \E p \in Procs : ConnectFail(p)
  \/ \E i \in Inst : SettleOk(i)
  \/ \E i \in Inst : SettleFail(i)
  \/ \E p \in Procs : DisposePoll(p)
  \/ \E p \in Procs : ReleaseOk(p)
  \/ \E p \in Procs : ReleaseFail(p)
  \/ \E p \in Procs : ReleaseCloseFail(p)

SpecReopen == InitReopen /\ [][NextReopen]_vars

\* The store under an engine and an event loop that keep going: callers that
\* set, start an iterator (and finish it or leave it suspended at a row) and
\* dispose, overlapping, on a plain and an encrypted file.
InitLive == InitStore /\ scope = "live" /\ opts = TwoFiles

NextLive ==
  \/ \E p \in Procs : Set(p)
  \/ \E p \in Procs : Iterator(p)
  \/ \E p \in Procs : Dispose(p)
  \/ \E p \in Procs : ConnectDone(p)
  \/ \E p \in Procs : ConnectFail(p)
  \/ \E i \in Inst : SettleOk(i)
  \/ \E i \in Inst : SettleFail(i)
  \/ \E p \in Procs : IterEnd(p)
  \/ \E p \in Procs : DisposePoll(p)
  \/ \E p \in Procs : ReleaseOk(p)
  \/ \E p \in Procs : ReleaseFail(p)

\* What the engine and the event loop guarantee: an awaited mkdir/connect, a
\* started statement and a cleanup statement settle (succeed or fail), and the
\* 1 ms timer of dispose fires.  Nothing obliges a caller to make a call, nor
\* the consumer of an iterator to ask for the next row.
\* (each of these steps moves its frame or the chain on)
progress == <<pc, operationQueue, rel>>
EngineFair ==
  /\ \A p \in Procs : WF_progress(ConnectDone(p) \/ ConnectFail(p))
  /\ \A i \in Inst : WF_progress(SettleOk(i) \/ SettleFail(i))
  /\ \A p \in Procs : WF_progress(ReleaseOk(p) \/ ReleaseFail(p))
TimerFair == \A p \in Procs : WF_progress(DisposePoll(p))

SpecLive == InitLive /\ [][NextLive]_vars /\ EngineFair /\ TimerFair

\* Callers whose calls are refused as well as served: set and get with a valid
\* and with an empty key, and dispose, on two instances that share a file, with
\* connects and statements that can fail.
InitReject == InitStore /\ scope = "reject" /\ opts = SharedFile

NextReject ==
  \/ \E p \in Procs : Set(p)
  \/ \E p \in Procs : Get(p)
  \/ \E p \in Procs : Dispose(p)
  \/ \E p \in Procs : ConnectDone(p)
  \/ \E p \in Procs : ConnectFail(p)
  \/ \E i \in Inst : SettleOk(i)
  \/ \E i \in Inst : SettleFail(i)
  \/ \E p \in Procs : DisposePoll(p)
  \/ \E p \in Procs : ReleaseOk(p)
  \/ \E p \in Procs : ReleaseFail(p)

SpecReject == InitReject /\ [][NextReject]_vars

\* ================================================================= claims
\* the calls of instance i that passed beginOperation and have not ended
Admitted(i) ==
  {p \in Procs : pc[p] \in {"connect", "stmt", "yield"} /\ call[p].inst = i}

\* the connections the connection manager ever opened for instance i
AcquiredBy(i) == {c \in ConnIds : connOwner[c] = i}

\* a batch method called with an empty list
EmptyBatch(c) ==
  c.op \in {"getMany", "setMany", "deleteMany", "hasMany"} /\ Len(c.keys) = 0

\* C1 (in-flight drain): from the moment dispose() sets the disposed flag and
\* starts releasing, no admitted operation of the instance is unfinished; every
\* statement an instance has queued or in flight is on an open connection that
\* is still registered; and a call is rejected with an engine error only when
\* the engine itself failed, never because dispose() took its connection away.
C1_InFlightDrain ==
  /\ \A i \in Inst : disposed[i] => Admitted(i) = {}
  /\ \A p \in Procs : pc[p] = "release" => pendingOperations[call[p].inst] = 0
  /\ \A i \in Inst : \A n \in 1..Len(operationQueue[i]) :
       LET c == operationQueue[i][n].conn IN
       c # NoConn => c \in connections /\ connState[c] = "open"
  /\ last.res.kind = "error" => faults > 0

\* C1 witness: an operation admitted before dispose() was invoked has just
\* completed successfully while that dispose() is waiting in its polling loop
C1_Witness ==
  \E p \in Procs :
    /\ pc[p] = "poll"
    /\ last.call.inst = call[p].inst
    /\ last.call.seq < call[p].seq
    /\ last.res.kind = "ok"
    /\ last.res.ran

\* C2 (admission closes when dispose() is invoked): no call that began after
\* a dispose() of its instance was invoked is ever admitted, and every such
\* call with a non-empty input is rejected as disposed.
C2_AdmissionClosesAtInvocation ==
  /\ \A i \in Inst : \A p \in Admitted(i) : ~call[p].late
  /\ (last.call.late /\ last.call.op \notin {"none", "dispose"} /\ ~EmptyBatch(last.call))
       => last.res.kind = "disposed"

\* C3 (disposal gating): a get, set, delete, clear or iterator call that began
\* after a dispose() of its instance had resolved is rejected as disposed and
\* never gets as far as connecting or queueing a statement.
C3_DisposalGating ==
  /\ \A i \in Inst : \A p \in Admitted(i) : ~call[p].post
  /\ (last.call.post /\ last.call.op \in {"get", "set", "delete", "clear", "iterator"})
       => last.res.kind = "disposed"

\* C3 witness: an iterator call made after dispose() resolved has been rejected
C3_Witness ==
  /\ last.call.post
  /\ last.call.op = "iterator"
  /\ last.res.kind = "disposed"

\* C4 (one connection per instance): the connection manager has opened at most
\* one connection for each instance.
C4_AtMostOneAcquire == \A i \in Inst : Cardinality(AcquiredBy(i)) <= 1

\* dispose() of instance i has resolved and no call on i is in flight
Quiesced(i) ==
  /\ disposal[i] = "resolved"
  /\ \A p \in Procs : pc[p] # "idle" => call[p].inst # i

\* C5 (no connection leak): once dispose() of an instance has resolved, no
\* connection opened for the instance is in the registry and the instance's
\* binding is absent.
C5_NoConnectionLeak ==
  \A i \in Inst :
    Quiesced(i) => AcquiredBy(i) \cap connections = {} /\ connection[i] = NoConn

\* C6 (per-instance serialization): at most one statement of an instance is
\* executing at any instant.
C6_OneStatementInFlight ==
  \A i \in Inst : Cardinality(Running(operationQueue[i])) <= 1

\* C6 witness: a statement of an instance is executing while another statement
\* of the same instance waits behind it
C6_Witness == \E i \in Inst : Len(operationQueue[i]) >= 2

\* the call of frame p has not had its first data statement executed yet
FirstPending(p) ==
  \/ pc[p] = "connect"
  \/ /\ pc[p] = "stmt"
     /\ \E n \in 1..Len(operationQueue[call[p].inst]) :
          /\ operationQueue[call[p].inst][n].proc = p
          /\ operationQueue[call[p].inst][n].stage \in {"create", "first"}

\* C7 (admission-order application): when a call whose statement was executed
\* returns, no call of the same instance that was admitted before it is still
\* waiting for its own first statement to be executed.
C7_AdmissionOrder ==
  last.res.ran =>
    \A p \in Admitted(last.call.inst) :
      call[p].seq < last.call.seq => ~FirstPending(p)

\* C8 (delete semantics): a delete that returns true is the call whose DELETE
\* removed the row.
C8_DeleteTrueRemovedRow ==
  (last.call.op = "delete" /\ last.res.kind = "ok" /\ last.res.val = Boolean(TRUE))
    => last.res.hit

\* C9 (disposed state): every public operation other than dispose that is
\* called after dispose() has resolved is rejected as disposed, whatever its
\* argument.
C9_DisposedRejectsAll ==
  (last.call.post /\ last.call.op \notin {"none", "dispose"})
    => last.res.kind = "disposed"

\* C10 (dispose resolves after the close): when a dispose() call resolves, every
\* connection of its instance that was handed to releaseConnection is closed.
C10_ResolvedAfterClose ==
  last.call.op = "dispose" =>
    \A c \in AcquiredBy(last.call.inst) :
      c \notin connections => connState[c] = "closed"

\* C11 (dispose is idempotent): a dispose() call made after an earlier dispose()
\* of the instance has resolved resolves without changing anything: the disposed
\* flag stays set, the registry (and so count()) and every connection's state
\* are as before, and no releaseConnection is called or cleanup started.
C11_DisposeIdempotent ==
  [][(last'.call.op = "dispose" /\ last'.call.post) =>
       /\ disposed[last'.call.inst] /\ disposed' = disposed
       /\ UNCHANGED <<connections, connState, connection, rel, closePromises>>
       /\ last'.res.kind = "ok"
       /\ ~last'.res.hit]_vars

\* C11 witness: a dispose() has resolved on an instance whose connection an
\* earlier, resolved dispose() had released and closed
C11_Witness ==
  /\ last.call.op = "dispose"
  /\ last.call.post
  /\ \E c \in AcquiredBy(last.call.inst) : connState[c] = "closed"

\* C12 (the disposed flag is monotonic): no step - of an operation, of a
\* dispose() call or of a registry call - clears the disposed flag of an
\* instance once it is set.
C12_DisposedMonotonic ==
  [][\A i \in Inst : disposed[i] => disposed'[i]]_vars

\* C12 witness: closeAllConnections has cleaned up the registry and returned
\* while an instance whose dispose() had resolved is still disposed
C12_Witness ==
  /\ last.call.op = "closeAllConnections"
  /\ last.res.ran
  /\ \E i \in Inst : disposed[i] /\ disposal[i] = "resolved"

\* the connections the connection manager has opened so far
Created == {c \in ConnIds : connState[c] # "none"}

\* this step is the synchronous part of a closeAllConnections call
ClearStep ==
  /\ calls' = calls + 1
  /\ \/ last'.call.op = "closeAllConnections"
     \/ \E p \in Procs : call'[p].op = "closeAllConnections" /\ call[p].op = "none"

\* the releaseConnection calls that find their connection in this step
Matched == {p \in Procs : rel[p] = NoRel /\ rel'[p] # NoRel}

\* C13 (connection accounting): the registry holds only connections that were
\* acquired, so count() is the number of acquires minus the number of removals;
\* a step changes count() only by +1 for the one connection it acquires, by -1
\* for the registered connection a release removes, or to 0 in
\* closeAllConnections.
C13_ConnectionAccounting ==
  /\ [](connections \subseteq Created)
  /\ [][/\ Cardinality(Created' \ Created) <= 1
        /\ \A p \in Matched : rel'[p].conn \in connections \ connections'
        /\ IF ClearStep THEN Cardinality(connections') = 0
           ELSE Cardinality(connections') =
                  getConnectionCount + Cardinality(Created' \ Created) - Cardinality(Matched)]_vars

\* C13 witness: two connections were acquired and a release has removed one of
\* them: count() is 1
C13_Witness ==
  /\ Cardinality(Created) = 2
  /\ getConnectionCount = 1
  /\ \E p \in Procs : pc[p] = "release"

\* C14 (closeAllConnections): the synchronous part of closeAllConnections leaves
\* the registry empty, the registry then grows only by an acquire, and when the
\* promise of a closeAllConnections call settles none of the cleanups that call
\* started is still running.
C14_ClearedAndAwaited ==
  /\ [][ClearStep => connections' = {}]_vars
  /\ [][connections' \subseteq connections \/ Created' # Created]_vars
  /\ [](\A c \in ConnIds : closePromises[c].step # "none" => closePromises[c].by # 0)

\* C15 (no sharing): every acquire registers a connection that was never handed
\* out before, whatever the path and key, and no two instances are bound to the
\* same connection.
C15_NoSharing ==
  /\ [](\A i, j \in Inst :
          (i # j /\ connection[i] # NoConn) => connection[i] # connection[j])
  /\ [][\A p \in Procs :
          (pc[p] = "connect" /\ pc'[p] # "connect" /\ last' = NoLast) =>
            /\ connection'[call[p].inst] \notin Created
            /\ connections' = connections \cup {connection'[call[p].inst]}]_vars

\* C15 witness: two instances opened on the same path with the same (absent)
\* key are both bound to a connection
C15_Witness ==
  /\ dbFile(1) = dbFile(2)
  /\ encryptionKey(1) = encryptionKey(2)
  /\ connection[1] # NoConn
  /\ connection[2] # NoConn

\* C16 (release is idempotent): a releaseConnection called with a connection
\* that is not in the registry leaves the registry, and so count(), unchanged,
\* starts no checkpoint or detach and closes nothing; it returns at once.
C16_ReleaseIdempotent ==
  [][\A i \in Inst :
       (~disposed[i] /\ disposed'[i] /\ connection[i] # NoConn
          /\ connection[i] \notin connections) =>
         /\ UNCHANGED <<connections, connState, rel, closePromises>>
         /\ last'.call.op = "dispose" /\ last'.call.inst = i
         /\ last'.res.kind = "ok"]_vars

\* C16 witness: a dispose() has passed to releaseConnection a connection that
\* closeAllConnections had removed from the registry, and has resolved
C16_Witness ==
  /\ last.call.op = "dispose"
  /\ last.res.hit
  /\ ~last.res.ran

\* C17 (release and releaseAll never reject): no releaseConnection call (made
\* by dispose, which passes its outcome on) and no closeAllConnections call ends
\* with the failure of a cleanup step.
C17_CleanupNeverRejects ==
  last.call.op \in {"dispose", "closeAllConnections"} => last.res.val # CloseError

\* C18 (dispose never rejects): every dispose() call that settles has resolved,
\* with the instance disposed and its connection binding cleared.
C18_DisposeNeverRejects ==
  last.call.op = "dispose" =>
    /\ last.res.kind = "ok"
    /\ disposed[last.call.inst]
    /\ connection[last.call.inst] = NoConn

\* a key that is empty or, with keySize set, longer than keySize
InvalidKey(i, k) == k = EmptyKey \/ (keySize(i) # NoKeySize /\ Len(k) > keySize(i))

\* the call c was given at least one invalid key
HasInvalid(c) == \E n \in 1..Len(c.keys) : InvalidKey(c.inst, c.keys[n])

\* C19 (batch all-or-nothing validation): a setMany, deleteMany or hasMany call
\* given at least one invalid key fails with a validation error in the step in
\* which it is made: it queues no statement, acquires no connection and leaves
\* every row of the table as it was.
C19_BatchAllOrNothing ==
  /\ [](last.call.op \in {"setMany", "deleteMany", "hasMany"} /\ HasInvalid(last.call)
          => last.res.kind = "validation" /\ ~last.res.ran)
  /\ [][last'.res.kind = "validation" =>
          /\ calls' = calls + 1
          /\ UNCHANGED <<table, operationQueue, connection, connections>>]_vars

\* C19 witness: a setMany whose valid key precedes an empty one has failed, on
\* an instance whose table already exists
C19_Witness ==
  /\ last.call.op = "setMany"
  /\ last.call.keys = <<KeyA, EmptyKey>>
  /\ last.res.kind = "validation"
  /\ tableExists[dbFile(last.call.inst)]

\* C20 (every key is validated): a get, getMany, set, setMany, delete,
\* deleteMany, has or hasMany call given an empty key, or a key longer than
\* keySize, fails with a validation error (in a run without engine failures, so
\* that no other error can take its place).
C20_EveryKeyValidated ==
  (last.call.op \in {"get", "getMany", "set", "setMany", "delete", "deleteMany",
                     "has", "hasMany"} /\ HasInvalid(last.call) /\ faults = 0)
    => last.res.kind = "validation"

\* C21 (key-size boundary): on an instance with keySize set, a set(k, v) whose
\* key is empty or longer than keySize fails with a validation error, without
\* executing a statement or changing a row, and a set with any other key
\* succeeds (the engine not failing).
C21_KeySizeBoundary ==
  /\ [](LET i == last.call.inst
            k == last.call.keys[1]
        IN (last.call.op = "set" /\ keySize(i) # NoKeySize /\ faults = 0) =>
             IF Len(k) = 0 \/ Len(k) >= keySize(i) + 1
             THEN last.res.kind = "validation" /\ ~last.res.ran
             ELSE last.res.kind = "ok" /\ last.res.ran)
  /\ [][(last'.call.op = "set" /\ last'.res.kind = "validation") =>
          UNCHANGED <<table, operationQueue>>]_vars

\* C21 witness: a set with a key one longer than keySize has failed on a file
\* that holds a row
C21_Witness ==
  /\ last.call.op = "set"
  /\ keySize(last.call.inst) # NoKeySize
  /\ Len(last.call.keys[1]) = keySize(last.call.inst) + 1
  /\ last.res.kind = "validation"
  /\ \E k \in StoredKeys : table[dbFile(last.call.inst)][k] # Absent

\* the payload of a value: the string itself, or the JSON text of a number
Payload(v) == v.text

\* the keys whose row differs between this state and the next
ChangedRows(f) == {k \in StoredKeys : table'[f][k] # table[f][k]}

\* C22 (round-trip and upsert): a set(k, v) that resolves leaves the row of k
\* holding the payload of v, replacing any earlier payload, and changes no other
\* row; the row of a key then changes only when a later set, setMany, delete,
\* deleteMany or clear on the file executes; and a get(k) that the engine does
\* not fail returns the payload in the row of k, or absent when there is none.
C22_RoundTripUpsert ==
  /\ [][(last'.call.op = "set" /\ last'.res.kind = "ok") =>
          LET f == dbFile(last'.call.inst) IN
          /\ table'[f][last'.call.keys[1]] = Payload(last'.call.val)
          /\ ChangedRows(f) \subseteq {last'.call.keys[1]}]_vars
  /\ [][\A f \in Files : ChangedRows(f) # {} =>
          /\ last'.res.ran
          /\ dbFile(last'.call.inst) = f
          /\ \/ last'.call.op = "clear"
             \/ /\ last'.call.op \in {"set", "setMany", "delete", "deleteMany"}
                /\ ChangedRows(f) \subseteq KeySet(last'.call.keys)]_vars
  /\ [](last.call.op = "get" /\ faults = 0 /\ last.call.keys[1] # EmptyKey
          /\ last.res.kind # "validation" =>
            /\ last.res.kind = "ok"
            /\ Payload(last.res.val) = table[dbFile(last.call.inst)][last.call.keys[1]])

\* C22 witness: a get has returned the payload "1" that a set of the number 1
\* or of the string "1" stored
C22_Witness ==
  /\ last.call.op = "get"
  /\ last.res.kind = "ok"
  /\ Payload(last.res.val) = "1"

\* the row of key k in table t, or absent
RowOf(t, k) == IF k \in StoredKeys THEN t[k] ELSE Absent

\* C23 (positional alignment of batch reads): a getMany(ks) or hasMany(ks) that
\* resolves returns a sequence as long as ks whose n-th element is the payload
\* in the row of ks[n] (absent when there is none), respectively whether that
\* row exists.
C23_PositionalAlignment ==
  LET ks == last.call.keys
      t == table[dbFile(last.call.inst)]
  IN (last.call.op \in {"getMany", "hasMany"} /\ last.res.kind = "ok") =>
       /\ Len(last.res.val.items) = Len(ks)
       /\ \A n \in 1..Len(ks) :
            last.res.val.items[n] = IF last.call.op = "getMany" THEN RowOf(t, ks[n])
                                    ELSE RowOf(t, ks[n]) # Absent

\* C23 witness: a getMany of a list that names one key twice, out of key order,
\* has returned with the row of that key missing and the row of the other present
C23_Witness ==
  /\ last.call.op = "getMany"
  /\ last.call.keys = <<KeyNB, KeyA, KeyNB>>
  /\ last.res.kind = "ok"
  /\ last.res.val.items[1] = Absent
  /\ last.res.val.items[2] # Absent

\* C24 (getMany([]) changes nothing): a getMany called with an empty list
\* returns the empty sequence in the step of the call, and leaves the registry,
\* the connections, the instance's binding and schema flag, its queue, its
\* pending-operation count and the tables as they were.
C24_GetManyEmptyFrame ==
  [][(last'.call.op = "getMany" /\ Len(last'.call.keys) = 0) =>
       /\ last'.res.kind = "ok"
       /\ last'.res.val = Array(<<>>)
       /\ calls' = calls + 1
       /\ UNCHANGED <<connections, connState, connection, schemaInitialized,
                      operationQueue, pendingOperations, table, tableExists>>]_vars

\* C24 witness: getMany([]) has returned on an instance that has no connection
\* while another connection is registered
C24_Witness ==
  /\ last.call.op = "getMany"
  /\ Len(last.call.keys) = 0
  /\ last.res.kind = "ok"
  /\ connection[last.call.inst] = NoConn
  /\ getConnectionCount > 0

\* C25 (namespace-scoped clear): a clear() that resolves on an instance with a
\* namespace has deleted exactly the rows whose key starts with the namespace
\* followed by ':' and left every other row as it was; with no namespace it has
\* deleted every row.
C25_NamespaceScopedClear ==
  [][(last'.call.op = "clear" /\ last'.res.kind = "ok") =>
       LET i == last'.call.inst
           f == dbFile(i)
       IN \A k \in StoredKeys :
            table'[f][k] = IF namespace(i) = NoNamespace \/ StartsWith(k, namespace(i))
                           THEN Absent ELSE table[f][k]]_vars

\* the namespace an iterator call filters by: the argument when one is given
\* (and is not empty), otherwise the instance's namespace
IterNamespace(c) ==
  IF c.keys # <<>> /\ c.keys[1] # <<>> THEN c.keys[1] ELSE namespace(c.inst)

\* C26 (iterator): an iterator that is consumed to its end has yielded, as
\* [key, payload] pairs in ascending key order and once each, exactly the rows
\* of the table whose key starts with '<ns>:' for the namespace it filters by,
\* or every row when there is no such namespace.
C26_IteratorRows ==
  LET rows == last.res.val.items
      t == table[dbFile(last.call.inst)]
      ns == IterNamespace(last.call)
      want == {k \in StoredKeys :
                 t[k] # Absent /\ (ns = NoNamespace \/ StartsWith(k, ns))}
  IN (last.call.op = "iterator" /\ last.res.kind = "ok") =>
       /\ {rows[n][1] : n \in 1..Len(rows)} = want
       /\ Len(rows) = Cardinality(want)
       /\ \A n \in 1..Len(rows) : rows[n][2] = t[rows[n][1]]
       /\ \A n \in 1..(Len(rows) - 1) : KeyLess(rows[n][1], rows[n + 1][1])

\* C27 (disconnect and the async-dispose hook act as dispose): every
\* disconnect() or [Symbol.asyncDispose]() call that settles has resolved and
\* leaves the instance disposed, no connection of the instance in the registry
\* and the binding cleared.
C27_AliasesDispose ==
  last.call.op \in {"disconnect", "asyncDispose"} =>
    /\ last.res.kind = "ok"
    /\ disposed[last.call.inst]
    /\ AcquiredBy(last.call.inst) \cap connections = {}
    /\ connection[last.call.inst] = NoConn

C29_DisposeTerminates ==
  \A p \in Procs : (pc[p] \in {"poll", "release"}) ~> (pc[p] = "idle")

\* C30: under a fair engine every call that passed beginOperation and waits
\* for its connection or for a statement eventually gets its result or its
\* error (for an iterator: its first next() returns), however many statements
\* are queued before its own and whether or not earlier ones failed.
C30_AdmittedSettles ==
  \A p \in Procs : (pc[p] \in {"connect", "stmt"}) ~> (pc[p] \in {"idle", "yield"})

\* a call settles that had a statement queued behind another call's after an
\* engine failure
C30_Witness ==
  /\ faults > 0
  /\ last.call # NoCall /\ last.res.ran
  /\ \E i \in Inst : Len(operationQueue[i]) >= 1
  /\ \E p \in Procs : pc[p] = "stmt" /\ call[p].seq > last.call.seq

\* C31 (schema before data): every data statement of an instance that is
\* executing runs after a CREATE TABLE IF NOT EXISTS of that instance has
\* succeeded - also for a call admitted while the creation is in flight or
\* after a creation attempt failed.
C31_SchemaBeforeData ==
  \A i \in Inst : \A n \in Running(operationQueue[i]) :
    operationQueue[i][n].stage # "create" => schemaInitialized[i]

\* the statements of a queue, by issuer and kind, in queue order
Tags(q) == [n \in 1..Len(q) |-> <<q[n].proc, q[n].stage>>]

\* the queue q with its n-th statement taken out
Without(q, n) == [m \in 1..(Len(q) - 1) |-> IF m < n THEN q[m] ELSE q[m + 1]]

\* C32 (failure isolation in the queue): in the step in which a queued
\* statement fails, the call that issued it is the one rejected; every other
\* call keeps waiting with its call unchanged, and the statements queued behind
\* the failed one stay queued, in their order, with the next one started.
C32_FailureIsolation ==
  [][\A i \in Inst :
       (last'.res.kind = "error" /\ operationQueue'[i] # operationQueue[i]) =>
         \E n \in 1..Len(operationQueue[i]) :
           LET p == operationQueue[i][n].proc IN
           /\ call[p].seq = last'.call.seq
           /\ Tags(operationQueue'[i]) = Tags(Without(operationQueue[i], n))
           /\ \A q \in Procs \ {p} : pc'[q] = pc[q] /\ call'[q] = call[q]
           /\ operationQueue'[i] # <<>> => 1 \in Running(operationQueue'[i])]_vars

\* C32 witness: a data statement has failed and its call was rejected while
\* the data statement of a later call of the instance is queued and started
C32_Witness ==
  /\ last.res.kind = "error" /\ last.res.ran
  /\ \E p \in Procs :
       /\ pc[p] = "stmt" /\ call[p].inst = last.call.inst
       /\ operationQueue[call[p].inst] # <<>>
       /\ operationQueue[call[p].inst][1].proc = p
       /\ operationQueue[call[p].inst][1].stage = "first"

\* C33 (queue FIFO): a statement enters an instance's queue at the tail and
\* leaves it from the head, so statements start in the order they were queued
\* whatever their kind; only the head has started, the others wait for it to
\* settle.
C33_QueueFIFO ==
  /\ [](\A i \in Inst : Running(operationQueue[i]) \subseteq {1})
  /\ [][\A i \in Inst :
          LET q == Tags(operationQueue[i])
              r == Tags(operationQueue'[i])
          IN \/ r = q
             \/ Len(r) = Len(q) + 1 /\ SubSeq(r, 1, Len(q)) = q
             \/ q # <<>> /\ r = Tail(q)
             \/ q # <<>> /\ Len(r) = Len(q) /\ SubSeq(r, 1, Len(q) - 1) = Tail(q)]_vars

\* C33 witness: the data statement of one call waits behind the CREATE TABLE
\* that another call's getConnection queued
C33_Witness ==
  \E i \in Inst :
    /\ Len(operationQueue[i]) >= 2
    /\ operationQueue[i][1].stage = "create"
    /\ operationQueue[i][2].stage = "first"
    /\ operationQueue[i][1].proc # operationQueue[i][2].proc

\* C34 (pending-count invariant): an instance's pendingOperations is never
\* negative and is the number of its calls that passed beginOperation and have
\* not ended, whichever way they end: a result, a validation error, a failed
\* connect or a failed statement.
C34_PendingCount ==
  \A i \in Inst :
    /\ pendingOperations[i] >= 0
    /\ pendingOperations[i] = Cardinality(Admitted(i))

\* C34 witness: a call has ended with an engine error while another call of
\* the instance is still counted
C34_Witness ==
  /\ last.res.kind = "error"
  /\ pendingOperations[last.call.inst] = 1
  /\ faults = 1

\* C35 (a rejected call changes nothing): in the step in which a call is
\* rejected for its key or because the instance is disposed, the registry, the
\* connections, the instance's binding, schema flag and queue, every table and
\* every pending-operation count stay as they were.
C35_RejectedCallFrame ==
  [][last'.res.kind \in {"validation", "disposed"} =>
       UNCHANGED <<connections, connOwner, connState, connection, schemaInitialized,
                   operationQueue, table, tableExists, pendingOperations,
                   disposed>>]_vars

\* C35 witness: a call with an invalid key was rejected on an instance that has
\* no connection, while the other instance holds one and has a call pending
C35_Witness ==
  /\ last.res.kind = "validation"
  /\ connection[last.call.inst] = NoConn
  /\ connections # {}
  /\ \E i \in Inst : pendingOperations[i] > 0

\* C36 (release removes the record first): while a checkpoint, detach or close
\* of releaseConnection(c) is in progress, and after one of them has failed, c
\* is not in the registry and getConnectionCount() does not count it.
C36_RemovedBeforeCleanup ==
  /\ \A p \in Procs : rel[p].step # "none" =>
       /\ rel[p].conn \notin connections
       /\ getConnectionCount = Cardinality(connections \ {rel[p].conn})
  /\ (last.call.op = "dispose" /\ last.res.hit /\ last.res.kind = "error") =>
       connection[last.call.inst] \notin connections

\* C36 witness: releaseConnection is past its checkpoint, at the detach of an
\* encrypted connection, while another connection is registered
C36_Witness ==
  \E p \in Procs : rel[p].step = "detach" /\ connections # {}

\* the call made in this step, if one is made
IssuedCall ==
  IF last'.call.seq = calls + 1 THEN last'.call
  ELSE call'[CHOOSE p \in Procs : call'[p].seq = calls + 1]

\* C37 (dispose acts before its promise is awaited): when dispose() is called
\* on an instance with no pending operation, then as the call returns its
\* promise the instance is disposed and no connection of the instance is in
\* the registry.
C37_DisposeActsAtOnce ==
  [][(calls' = calls + 1 /\ IssuedCall.op = "dispose"
        /\ pendingOperations[IssuedCall.inst] = 0) =>
       /\ disposed'[IssuedCall.inst]
       /\ \A c \in AcquiredBy(IssuedCall.inst) : c \notin connections']_vars

\* a statement of the instance that owns connection c is queued or executing
\* on c
Busy(c) ==
  \E n \in 1..Len(operationQueue[connOwner[c]]) :
    operationQueue[connOwner[c]][n].conn \in {c, NoConn}

\* C38 (cleanup never overlaps the owner's statements): while a checkpoint,
\* detach or close of releaseConnection or closeAllConnections is in progress
\* on a connection, no statement of the owning instance is executing or queued
\* on it.
C38_CleanupAfterStatements ==
  \A c \in ConnIds :
    (closePromises[c].step # "none" \/ \E p \in Procs : rel[p].step # "none" /\ rel[p].conn = c)
      => ~Busy(c)

\* the cleanups in progress on connection c: those of releaseConnection and
\* that of closeAllConnections
Cleanups(c) ==
  Cardinality({p \in Procs : rel[p].step # "none" /\ rel[p].conn = c})
    + (IF closePromises[c].step # "none" THEN 1 ELSE 0)

\* C39 (closed at most once): a connection has at most one cleanup, which ends
\* with the closeSync calls, in progress; a cleanup is in progress only on a
\* connection on which no closeSync has run; and once closeSync has run on a
\* connection no step changes what is closed of it.
C39_ClosedAtMostOnce ==
  /\ [](\A c \in ConnIds :
          /\ Cleanups(c) <= 1
          /\ Cleanups(c) = 1 => connState[c] = "open")
  /\ [][\A c \in ConnIds :
          connState[c] \in {"closed", "half"} => connState'[c] = connState[c]]_vars

\* C39 witness: a connection has been closed, and a closeAllConnections call
\* made after a dispose of its owner had started to release it has returned
\* without a cleanup of its own
C39_Witness ==
  /\ last.call.op = "closeAllConnections"
  /\ ~last.res.ran
  /\ \E c \in ConnIds : connState[c] = "closed" /\ disposed[connOwner[c]]

\* C40 (a disposed instance never acquires): no call of an instance whose
\* disposed flag is set is waiting for mkdir or for the connection manager, and
\* a step that adds a record to the registry adds it for an instance that is
\* not disposed.
C40_DisposedNeverAcquires ==
  /\ [](\A p \in Procs : pc[p] = "connect" => ~disposed[call[p].inst])
  /\ [][\A c \in connections' \ connections : ~disposed'[connOwner'[c]]]_vars

\* C40 witness: a call on a disposed instance whose connection was released
\* and closed has been refused
C40_Witness ==
  /\ last.res.kind = "disposed"
  /\ connection[last.call.inst] = NoConn
  /\ \E c \in AcquiredBy(last.call.inst) : connState[c] = "closed"
====
